---- MODULE Spec2Model ----
(***************************************************************************)
(* The by-hand TF-IDF vectorizer of Lecture1-Tfidf and the text-cleaning   *)
(* pipeline of Lecture1-Stemming.                                          *)
(*                                                                         *)
(* A document is a Python str, modelled as a sequence of one-character     *)
(* strings; a token is a non-empty sequence of non-whitespace characters.  *)
(* Numbers are integers: a logarithm is its value in thousandths, taken    *)
(* from a table, and a normalised entry el / sqrt(denom) is kept exactly,  *)
(* as the pair [num |-> el, rad |-> denom].                                *)
(***************************************************************************)
EXTENDS Integers, Sequences, FiniteSets

MaxCorpusSize == 7
MaxSessionSize == 4
MaxDocLen == 4
MaxCalls == 2
MaxTokens == 2
MaxTokenLen == 2
MaxReviews == 2

VARIABLES
    status,            \* "unfitted" before the vocabulary cell has run, then "fitted"
    mydoclist,         \* the training corpus
    vocabulary,        \* the lexicon, in the order iteration over the set yields
    doc_term_matrix,   \* one term-count row per training document
    my_idf_vector,     \* one IDF weight per vocabulary term
    new_doc,           \* the document of the latest transform
    tf_vector,         \* its term-count row
    tf_l2,             \* l2_normalizer of the term-count row
    tfidf_l2,          \* l2_normalizer of the TF-IDF weighted row
    calls,             \* transforms since the latest fit
    stage,             \* cleaning pipeline: which cell has run
    tokenized_docs,
    tokenized_docs_no_punctuation,
    tokenized_docs_no_stopwords

vecvars == <<status, mydoclist, vocabulary, doc_term_matrix, my_idf_vector,
             new_doc, tf_vector, tf_l2, tfidf_l2, calls>>
cleanvars == <<stage, tokenized_docs, tokenized_docs_no_punctuation,
               tokenized_docs_no_stopwords>>
vars == <<vecvars, cleanvars>>

Range(s) == {s[i] : i \in DOMAIN s}

(* np.sum of a list of numbers *)
RECURSIVE np_sum(_)
np_sum(list) == IF list = <<>> THEN 0 ELSE Head(list) + np_sum(Tail(list))

(***************************************************************************)
(* Inputs.                                                                 *)
(***************************************************************************)
Whitespace == {" "}
Alphabet == {"a", " "}
StringsOf(n) == [1..n -> Alphabet]

(* The documents taken through the row cells. *)
Docs == UNION {StringsOf(n) : n \in 0..MaxDocLen}

(* The corpora of at most size characters, a document counting one more
   than its length. *)
RECURSIVE CorporaWithin(_)
CorporaWithin(size) ==
    {<<>>} \cup
    UNION {{<<doc>> \o rest : doc \in StringsOf(n), rest \in CorporaWithin(size - n - 1)} :
              n \in 0..(size - 1)}

CorpusSize(corpus) == Len(corpus) + np_sum([d \in 1..Len(corpus) |-> Len(corpus[d])])

Corpora == CorporaWithin(MaxCorpusSize)

(***************************************************************************)
(* str.split(): the maximal runs of non-whitespace characters, in order.   *)
(***************************************************************************)
RECURSIVE SplitFrom(_, _, _, _)
SplitFrom(s, i, cur, acc) ==
    IF i > Len(s)
    THEN IF cur = <<>> THEN acc ELSE Append(acc, cur)
    ELSE IF s[i] \in Whitespace
         THEN SplitFrom(s, i + 1, <<>>, IF cur = <<>> THEN acc ELSE Append(acc, cur))
         ELSE SplitFrom(s, i + 1, Append(cur, s[i]), acc)

split(s) == SplitFrom(s, 1, <<>>, <<>>)

(* list.count(x) *)
RECURSIVE count(_, _)
count(list, x) ==
    IF list = <<>> THEN 0
    ELSE (IF Head(list) = x THEN 1 ELSE 0) + count(Tail(list), x)

(***************************************************************************)
(* build_lexicon: lexicon.update(doc.split()) for each doc of the corpus.  *)
(***************************************************************************)
RECURSIVE build_lexicon_from(_, _, _)
build_lexicon_from(corpus, i, lexicon) ==
    IF i > Len(corpus) THEN lexicon
    ELSE build_lexicon_from(corpus, i + 1, lexicon \cup Range(split(corpus[i])))

(* Variant: lexicon = set(doc.split()) in the loop, so the last document wins. *)
build_lexicon_overwriting(corpus) ==
    IF corpus = <<>> THEN {} ELSE Range(split(corpus[Len(corpus)]))

build_lexicon(corpus) == build_lexicon_from(corpus, 1, {})

(* Variant: 1 if the term is among the tokens, else 0. *)
freq_presence(term, document) == IF term \in Range(split(document)) THEN 1 ELSE 0

freq(term, document) == count(split(document), term)

tf(term, document) == freq(term, document)

(* [tf(word, doc) for word in vocabulary] *)
tf_row(doc, vocab) == [i \in 1..Len(vocab) |-> tf(vocab[i], doc)]

(* The orders in which iterating a set can yield its elements. *)
RECURSIVE Orderings(_)
Orderings(S) ==
    IF S = {} THEN {<<>>}
    ELSE UNION {{<<x>> \o s : s \in Orderings(S \ {x})} : x \in S}

(***************************************************************************)
(* numDocsContaining and idf.                                              *)
(***************************************************************************)
RECURSIVE numDocsContaining_from(_, _, _, _)
numDocsContaining_from(word, doclist, i, doccount) ==
    IF i > Len(doclist) THEN doccount
    ELSE numDocsContaining_from(word, doclist, i + 1,
            IF freq(word, doclist[i]) > 0 THEN doccount + 1 ELSE doccount)

(* Variant: doccount += freq(word, doc), the occurrences over the corpus. *)
numDocsContaining_occurrences(word, doclist) ==
    np_sum([d \in 1..Len(doclist) |-> freq(word, doclist[d])])

numDocsContaining(word, doclist) == numDocsContaining_from(word, doclist, 1, 0)

(* np.log, in thousandths, of the integers this model can pass to it. *)
LnMilli == <<0, 693, 1099, 1386, 1609, 1792, 1946, 2079, 2197, 2303, 2398, 2485>>

np_log(x) == LnMilli[x]

(* n_samples / 1 + df parses as (n_samples / 1) + df; dividing by 1 is exact. *)
idf(word, doclist) ==
    LET n_samples == Len(doclist)
        df == numDocsContaining(word, doclist)
    IN  np_log((n_samples \div 1) + df)

idf_vector(vocab, doclist) == [i \in 1..Len(vocab) |-> idf(vocab[i], doclist)]

(***************************************************************************)
(* build_idf_matrix and np.dot(tf_vector, my_idf_matrix).                  *)
(***************************************************************************)
build_idf_matrix(idf_vec) ==
    [i \in 1..Len(idf_vec) |-> [j \in 1..Len(idf_vec) |-> IF i = j THEN idf_vec[i] ELSE 0]]

RECURSIVE dot_column(_, _, _, _)
dot_column(vec, mat, j, i) ==
    IF i > Len(vec) THEN 0 ELSE vec[i] * mat[i][j] + dot_column(vec, mat, j, i + 1)

(* A list of Python ints, and the float64 array np.dot returns. *)
PyInts(list) == [dtype |-> "int", el |-> list]

np_dot(vec, mat) == [dtype |-> "float64", el |-> [j \in 1..Len(mat) |-> dot_column(vec, mat, j, 1)]]

(***************************************************************************)
(* l2_normalizer.  el / math.sqrt(denom): a Python int divided by 0.0      *)
(* raises ZeroDivisionError; a float64 divided by 0.0 is nan (0/0) or inf. *)
(***************************************************************************)
Finite(el, denom) == [nan |-> FALSE, inf |-> FALSE, num |-> el, rad |-> denom]
NaN == [nan |-> TRUE, inf |-> FALSE, num |-> 0, rad |-> 0]
Inf == [nan |-> FALSE, inf |-> TRUE, num |-> 0, rad |-> 0]

Returned(row) == [raised |-> "none", row |-> row]
Raised(exc) == [raised |-> exc, row |-> <<>>]

(* Variant: denom = np.sum([el for el in vec]), the squaring forgotten. *)
l2_normalizer_no_square(vec) ==
    LET denom == np_sum(vec.el)
    IN  IF denom # 0
        THEN Returned([i \in 1..Len(vec.el) |-> Finite(vec.el[i], denom)])
        ELSE IF vec.el = <<>>
        THEN Returned(<<>>)
        ELSE IF vec.dtype = "int"
        THEN Raised("ZeroDivisionError")
        ELSE Returned([i \in 1..Len(vec.el) |-> IF vec.el[i] = 0 THEN NaN ELSE Inf])

l2_normalizer(vec) ==
    LET denom == np_sum([i \in 1..Len(vec.el) |-> vec.el[i] * vec.el[i]])
    IN  IF denom # 0
        THEN Returned([i \in 1..Len(vec.el) |-> Finite(vec.el[i], denom)])
        ELSE IF vec.el = <<>>
        THEN Returned(<<>>)
        ELSE IF vec.dtype = "int"
        THEN Raised("ZeroDivisionError")
        ELSE Returned([i \in 1..Len(vec.el) |-> IF vec.el[i] = 0 THEN NaN ELSE Inf])

(***************************************************************************)
(* The vectorizer.                                                         *)
(***************************************************************************)
InitVec ==
    /\ status = "unfitted"
    /\ mydoclist = <<>>
    /\ vocabulary = <<>>
    /\ doc_term_matrix = <<>>
    /\ my_idf_vector = <<>>
    /\ new_doc = <<>>
    /\ tf_vector = <<>>
    /\ tf_l2 = Returned(<<>>)
    /\ tfidf_l2 = Returned(<<>>)
    /\ calls = 0

(* The vocabulary, document-term matrix and IDF cells run over a corpus;
   order is the order in which the lexicon, a set, is iterated. *)
fit(corpus, order) ==
    [mydoclist |-> corpus,
     vocabulary |-> order,
     doc_term_matrix |-> [d \in 1..Len(corpus) |-> tf_row(corpus[d], order)],
     my_idf_vector |-> idf_vector(order, corpus)]

(* What running those cells can leave, over every corpus of the bounds. *)
Fits ==
    UNION {{fit(corpus, order) : order \in Orderings(build_lexicon(corpus))} :
              corpus \in Corpora}

(* Running the cells (again) binds the globals anew. *)
Fit(f) ==
    /\ mydoclist' = f.mydoclist
    /\ vocabulary' = f.vocabulary
    /\ doc_term_matrix' = f.doc_term_matrix
    /\ my_idf_vector' = f.my_idf_vector
    /\ status' = "fitted"
    /\ new_doc' = <<>>
    /\ tf_vector' = <<>>
    /\ tf_l2' = Returned(<<>>)
    /\ tfidf_l2' = Returned(<<>>)
    /\ calls' = 0
    /\ UNCHANGED cleanvars

(* Variant: a transform that adds the document's unseen tokens to the vocabulary. *)
Transform_growing(doc) ==
    /\ status = "fitted"
    /\ calls < MaxCalls
    /\ new_doc' = doc
    /\ \E unseen \in Orderings(Range(split(doc)) \ Range(vocabulary)) :
          /\ vocabulary' = vocabulary \o unseen
          /\ my_idf_vector' = my_idf_vector \o [i \in 1..Len(unseen) |-> 0]
    /\ tf_vector' = tf_row(doc, vocabulary')
    /\ tf_l2' = l2_normalizer(PyInts(tf_vector'))
    /\ tfidf_l2' = l2_normalizer(np_dot(tf_vector', build_idf_matrix(my_idf_vector')))
    /\ calls' = calls + 1
    /\ UNCHANGED <<status, mydoclist, doc_term_matrix>>
    /\ UNCHANGED cleanvars

(* One document taken through the term-count, TF-IDF and normalising cells. *)
Transform(doc) ==
    /\ status = "fitted"
    /\ calls < MaxCalls
    /\ new_doc' = doc
    /\ tf_vector' = tf_row(doc, vocabulary)
    /\ tf_l2' = l2_normalizer(PyInts(tf_vector'))
    /\ tfidf_l2' = l2_normalizer(np_dot(tf_vector', build_idf_matrix(my_idf_vector)))
    /\ calls' = calls + 1
    /\ UNCHANGED <<status, mydoclist, vocabulary, doc_term_matrix, my_idf_vector>>
    /\ UNCHANGED cleanvars

(***************************************************************************)
(* The cleaning pipeline, from the output of word_tokenize onwards.        *)
(***************************************************************************)
Punctuation == {"."}
Uppercase == {"A"}
CleanAlphabet == {"a", "A", "."}
Stopwords == {<<"a">>}
Tokens == UNION {[1..n -> CleanAlphabet] : n \in 1..MaxTokenLen}
Reviews == UNION {[1..n -> Tokens] : n \in 0..MaxTokens}
RawCorpora == UNION {[1..n -> Reviews] : n \in 1..MaxReviews}

(* regex.sub(u'', token): the token without its punctuation characters. *)
RECURSIVE regex_sub(_)
regex_sub(token) ==
    IF token = <<>> THEN <<>>
    ELSE IF Head(token) \in Punctuation
         THEN regex_sub(Tail(token))
         ELSE <<Head(token)>> \o regex_sub(Tail(token))

RECURSIVE strip_review(_)
strip_review(review) ==
    IF review = <<>> THEN <<>>
    ELSE LET new_token == regex_sub(Head(review))
         IN  IF new_token # <<>>
             THEN <<new_token>> \o strip_review(Tail(review))
             ELSE strip_review(Tail(review))

RECURSIVE drop_stopwords(_)
drop_stopwords(doc) ==
    IF doc = <<>> THEN <<>>
    ELSE IF Head(doc) \notin Stopwords
         THEN <<Head(doc)>> \o drop_stopwords(Tail(doc))
         ELSE drop_stopwords(Tail(doc))

InitCleanIdle ==
    /\ stage = "tokenized"
    /\ tokenized_docs = <<>>
    /\ tokenized_docs_no_punctuation = <<>>
    /\ tokenized_docs_no_stopwords = <<>>

InitClean ==
    /\ stage = "tokenized"
    /\ tokenized_docs \in RawCorpora
    /\ tokenized_docs_no_punctuation = <<>>
    /\ tokenized_docs_no_stopwords = <<>>

RemovePunctuation ==
    /\ stage = "tokenized"
    /\ tokenized_docs_no_punctuation' =
          [d \in 1..Len(tokenized_docs) |-> strip_review(tokenized_docs[d])]
    /\ stage' = "no_punctuation"
    /\ UNCHANGED <<tokenized_docs, tokenized_docs_no_stopwords>>
    /\ UNCHANGED vecvars

RemoveStopwords ==
    /\ stage = "no_punctuation"
    /\ tokenized_docs_no_stopwords' =
          [d \in 1..Len(tokenized_docs_no_punctuation) |->
              drop_stopwords(tokenized_docs_no_punctuation[d])]
    /\ stage' = "no_stopwords"
    /\ UNCHANGED <<tokenized_docs, tokenized_docs_no_punctuation>>
    /\ UNCHANGED vecvars

(***************************************************************************)
(* Specifications.                                                         *)
(***************************************************************************)
Init == InitVec /\ InitCleanIdle

(* The notebook run once from top to bottom: the corpus cells run, then a
   document is taken through the row cells. *)
Next ==
    \/ status = "unfitted" /\ \E f \in Fits : Fit(f)
    \/ \E doc \in Docs : calls = 0 /\ Transform(doc)

Spec == Init /\ [][Next]_vars

(* An interactive session: the corpus cells may be run again at any time,
   here over corpora of at most MaxSessionSize characters. *)
SessionFits == {f \in Fits : CorpusSize(f.mydoclist) <= MaxSessionSize}

NextSession ==
    \/ \E f \in SessionFits : Fit(f)
    \/ \E doc \in Docs : Transform(doc)

SpecSession == Init /\ [][NextSession]_vars

NextClean == RemovePunctuation \/ RemoveStopwords

InitCleaning == InitVec /\ InitClean

SpecClean == InitCleaning /\ [][NextClean]_vars

(***************************************************************************)
(* Vocabulary of the properties, stated without the program's operators:   *)
(* a term occurs at position p of a document when it fills a maximal run   *)
(* of non-whitespace characters that starts there.                         *)
(***************************************************************************)
TokenAt(doc, p, term) ==
    /\ Len(term) > 0
    /\ p + Len(term) - 1 <= Len(doc)
    /\ \A k \in 1..Len(term) : doc[p + k - 1] = term[k] /\ term[k] \notin Whitespace
    /\ (p = 1 \/ doc[p - 1] \in Whitespace)
    /\ (p + Len(term) > Len(doc) \/ doc[p + Len(term)] \in Whitespace)

Occurrences(term, doc) == Cardinality({p \in 1..Len(doc) : TokenAt(doc, p, term)})

DocFreq(term, doclist) ==
    Cardinality({d \in 1..Len(doclist) : Occurrences(term, doclist[d]) > 0})

Words == UNION {[1..n -> Alphabet \ Whitespace] : n \in 1..(MaxDocLen + MaxCorpusSize)}

TermsOf(doc) == {w \in Words : Occurrences(w, doc) > 0}

LexiconOf(doclist) == UNION {TermsOf(doclist[d]) : d \in 1..Len(doclist)}

Permutations(list) ==
    {[i \in 1..Len(list) |-> list[p[i]]] : p \in Orderings(1..Len(list))}

IsZeroVector(list) == \A i \in 1..Len(list) : list[i] = 0

IsZeroEntry(e) == ~e.nan /\ ~e.inf /\ e.num = 0

(* The squares of the entries num / sqrt(rad) of a row sum to 1. *)
HasUnitNorm(result) ==
    /\ result.raised = "none"
    /\ Len(result.row) > 0
    /\ \A i \in 1..Len(result.row) :
          /\ ~result.row[i].nan
          /\ ~result.row[i].inf
          /\ result.row[i].rad > 0
          /\ result.row[i].rad = result.row[1].rad
    /\ np_sum([i \in 1..Len(result.row) |-> result.row[i].num * result.row[i].num])
          = result.row[1].rad

ReturnsZeroVector(result, n) ==
    /\ result.raised = "none"
    /\ Len(result.row) = n
    /\ \A i \in 1..n : IsZeroEntry(result.row[i])

RECURSIVE IsSubsequence(_, _)
IsSubsequence(sub, list) ==
    IF sub = <<>> THEN TRUE
    ELSE IF list = <<>> THEN FALSE
    ELSE IF Head(sub) = Head(list)
         THEN IsSubsequence(Tail(sub), Tail(list))
         ELSE IsSubsequence(sub, Tail(list))

WithoutPunctuation(token) == SelectSeq(token, LAMBDA c : c \notin Punctuation)

(* The corpus cells have just run: no document has been transformed since. *)
JustFitted == status = "fitted" /\ calls = 0

(* A row of term counts of a document over the vocabulary. *)
IsCountRow(row, doc) ==
    /\ Len(row) = Len(vocabulary)
    /\ \A i \in 1..Len(row) : row[i] = Occurrences(vocabulary[i], doc)
    /\ np_sum(row) =
          Cardinality({p \in 1..Len(doc) :
                          \E i \in 1..Len(vocabulary) : TokenAt(doc, p, vocabulary[i])})

(* The TF-IDF weighted row of the latest transform, before normalising. *)
tfidf_vector == np_dot(tf_vector, build_idf_matrix(my_idf_vector)).el

(***************************************************************************)
(* C1: for every fitted corpus of N documents and every vocabulary term,   *)
(* the IDF weight is log(N / (1 + df)), that is log N - log(1 + df).       *)
(***************************************************************************)
C1_IdfIsLogOfNOverOnePlusDf ==
    status = "fitted" =>
        \A i \in 1..Len(vocabulary) :
            my_idf_vector[i] =
                np_log(Len(mydoclist)) - np_log(1 + DocFreq(vocabulary[i], mydoclist))

(***************************************************************************)
(* C2: normalising a row whose Euclidean norm is zero returns the zero     *)
(* vector of the same length: no exception, no NaN, no Inf.                *)
(***************************************************************************)
C2_ZeroNormGivesZeroVector ==
    calls > 0 =>
        /\ IsZeroVector(tf_vector) => ReturnsZeroVector(tf_l2, Len(tf_vector))
        /\ IsZeroVector(tfidf_vector) => ReturnsZeroVector(tfidf_l2, Len(tfidf_vector))

(***************************************************************************)
(* C3: fitting on an empty corpus never completes successfully.            *)
(***************************************************************************)
C3_EmptyCorpusIsRejected == status = "fitted" => mydoclist # <<>>

(***************************************************************************)
(* C4: a term-count row has one entry per vocabulary term, each entry is   *)
(* the number of occurrences of its term in the document, tokens outside   *)
(* the vocabulary count nowhere, and every row of the document-term matrix *)
(* is as long as the vocabulary.                                           *)
(***************************************************************************)
C4_RowCountsVocabularyTerms ==
    /\ calls > 0 => IsCountRow(tf_vector, new_doc)
    /\ JustFitted =>
          /\ Len(doc_term_matrix) = Len(mydoclist)
          /\ \A d \in 1..Len(mydoclist) : IsCountRow(doc_term_matrix[d], mydoclist[d])

C4_Witness ==
    /\ calls > 0
    /\ \E w \in TermsOf(new_doc) : w \notin Range(vocabulary)
    /\ \E i \in 1..Len(tf_vector) : tf_vector[i] > 0
    /\ Len(split(new_doc)) # Len(vocabulary)

(* The two parts of C5: what every fitted state is, what a transform keeps. *)
FittedStateIsOfLatestCorpus ==
    status = "fitted" =>
        /\ Range(vocabulary) = LexiconOf(mydoclist)
        /\ Len(vocabulary) = Cardinality(LexiconOf(mydoclist))
        /\ Len(my_idf_vector) = Len(vocabulary)
        /\ \A i \in 1..Len(vocabulary) :
              my_idf_vector[i] = idf(vocabulary[i], mydoclist)

TransformKeepsFittedState ==
    calls' = calls + 1 =>
        /\ UNCHANGED <<mydoclist, vocabulary, my_idf_vector, doc_term_matrix>>
        /\ (calls > 0 /\ new_doc' = new_doc) =>
              UNCHANGED <<tf_vector, tf_l2, tfidf_l2>>

(***************************************************************************)
(* C5: the vocabulary and the IDF vector are always those of the corpus of *)
(* the latest fit; a transform changes neither; transforming the same      *)
(* document again gives the same rows.                                     *)
(***************************************************************************)
C5_FitStateOnlyChangedByFit ==
    /\ []FittedStateIsOfLatestCorpus
    /\ [][TransformKeepsFittedState]_vars

C5_Witness ==
    /\ calls = MaxCalls
    /\ Len(vocabulary) > 0
    /\ \E w \in TermsOf(new_doc) : w \notin Range(vocabulary)

(***************************************************************************)
(* C6: fitting on any permutation of the corpus gives the same vocabulary  *)
(* set and, per term, the same document frequency and the same IDF.        *)
(***************************************************************************)
C6_FitIsOrderIndependent ==
    JustFitted =>
        \A perm \in Permutations(mydoclist) :
            /\ build_lexicon(perm) = Range(vocabulary)
            /\ \A i \in 1..Len(vocabulary) :
                  /\ numDocsContaining(vocabulary[i], perm)
                        = numDocsContaining(vocabulary[i], mydoclist)
                  /\ idf(vocabulary[i], perm) = my_idf_vector[i]

C6_Witness ==
    /\ status = "fitted"
    /\ Len(mydoclist) >= 2
    /\ TermsOf(mydoclist[1]) # TermsOf(mydoclist[2])
    /\ \E i, j \in 1..Len(vocabulary) : my_idf_vector[i] # my_idf_vector[j]

(***************************************************************************)
(* C7: a row normalised from a vector with a non-zero entry has Euclidean  *)
(* norm 1, for term-count rows and for TF-IDF weighted rows.               *)
(***************************************************************************)
C7_NormalisedRowHasUnitNorm ==
    calls > 0 =>
        /\ ~IsZeroVector(tf_vector) => HasUnitNorm(tf_l2)
        /\ ~IsZeroVector(tfidf_vector) => HasUnitNorm(tfidf_l2)

C7_Witness ==
    /\ calls > 0
    /\ \E i, j \in 1..Len(tf_vector) : i # j /\ tf_vector[i] > 0 /\ tf_vector[j] > 0
    /\ ~IsZeroVector(tfidf_vector)

(***************************************************************************)
(* C8: within one fitted corpus a term of smaller document frequency has   *)
(* the strictly larger IDF.                                                *)
(***************************************************************************)
C8_RarerTermsWeighMore ==
    status = "fitted" =>
        \A i, j \in 1..Len(vocabulary) :
            DocFreq(vocabulary[i], mydoclist) < DocFreq(vocabulary[j], mydoclist)
                => my_idf_vector[i] > my_idf_vector[j]

(***************************************************************************)
(* C9: numDocsContaining(word, doclist) is the number of documents in      *)
(* which the word occurs at least once, between 0 and len(doclist), and at *)
(* least 1 for a word of the vocabulary built from doclist; the frequency  *)
(* of a word in a document without it is 0.                                *)
(***************************************************************************)
C9_NumDocsContainingIsDocFreq ==
    JustFitted =>
        \A word \in Words :
            /\ numDocsContaining(word, mydoclist) = DocFreq(word, mydoclist)
            /\ numDocsContaining(word, mydoclist) \in 0..Len(mydoclist)
            /\ word \in Range(vocabulary) => numDocsContaining(word, mydoclist) >= 1
            /\ \A d \in 1..Len(mydoclist) :
                  word \notin TermsOf(mydoclist[d]) => freq(word, mydoclist[d]) = 0

C9_Witness ==
    /\ status = "fitted"
    /\ \E i \in 1..Len(vocabulary) :
          /\ \E d \in 1..Len(mydoclist) : Occurrences(vocabulary[i], mydoclist[d]) >= 2
          /\ \E d \in 1..Len(mydoclist) : Occurrences(vocabulary[i], mydoclist[d]) = 0

(***************************************************************************)
(* C10: the cleaning pipeline gives one output document per input          *)
(* document; no output token is empty, holds a punctuation character,      *)
(* holds an uppercase letter or is a stopword; and the surviving tokens    *)
(* keep the order of the tokens they come from.                            *)
(***************************************************************************)
C10_CleanedTokensAreNormalised ==
    stage = "no_stopwords" =>
        /\ Len(tokenized_docs_no_stopwords) = Len(tokenized_docs)
        /\ \A d \in 1..Len(tokenized_docs_no_stopwords) :
              /\ \A k \in 1..Len(tokenized_docs_no_stopwords[d]) :
                    LET token == tokenized_docs_no_stopwords[d][k]
                    IN  /\ token # <<>>
                        /\ \A c \in Range(token) : c \notin Punctuation
                        /\ \A c \in Range(token) : c \notin Uppercase
                        /\ token \notin Stopwords
              /\ IsSubsequence(tokenized_docs_no_stopwords[d],
                    [k \in 1..Len(tokenized_docs[d]) |->
                        WithoutPunctuation(tokenized_docs[d][k])])

====
